---- MODULE Spec2Model ----
(***************************************************************************)
(* A model of two SynthEval metrics:                                       *)
(*   metrics/privacy/metric_epsilon_identifiability.py                     *)
(*   metrics/utility/metric_mixed_correlation.py                           *)
(*                                                                         *)
(* Numbers are binary floating point values m * 2^e whose significand      *)
(* holds Prec bits (float64 holds 53), rounded to nearest, ties to even,   *)
(* with an unbounded exponent, plus inf and nan.  Every arithmetic step    *)
(* of the source is one rounded operation here.                            *)
(***************************************************************************)
EXTENDS Integers, Sequences, FiniteSets, TLC

VARIABLES self, ext, last, ret

vars == <<self, ext, last, ret>>

(***************************************************************************)
(* Bounds of the model.                                                    *)
(***************************************************************************)
Prec == 3
\* Rows of the datasets a metric instance is built with.
NRows == 2
\* Rows and the largest value of the datasets the functions are applied to.
FnRows == 3
MaxVal == 3

----------------------------------------------------------------------------
(***************************************************************************)
(* Floating point.                                                         *)
(***************************************************************************)
Fin(m, e) == [k |-> "fin", m |-> m, e |-> e]
Inf(s) == [k |-> "inf", m |-> s, e |-> 0]
NaN == [k |-> "nan", m |-> 0, e |-> 0]
Zero == Fin(0, 0)
One == Fin(1, 0)

Abs(n) == IF n < 0 THEN -n ELSE n
Sgn(n) == IF n < 0 THEN -1 ELSE IF n > 0 THEN 1 ELSE 0

RECURSIVE BitLen(_)
BitLen(n) == IF n = 0 THEN 0 ELSE 1 + BitLen(n \div 2)

\* The canonical form of m * 2^e: an odd significand, or zero.
RECURSIVE Canon(_, _)
Canon(m, e) ==
    IF m = 0 THEN Zero
    ELSE IF m % 2 = 0 THEN Canon(m \div 2, e + 1)
    ELSE Fin(m, e)

\* m * 2^e rounded to Prec significant bits, to nearest, ties to even.
Round(m, e) ==
    LET a == Abs(m)
        k == BitLen(a) - Prec
    IN  IF k <= 0 THEN Canon(m, e)
        ELSE LET q == a \div (2 ^ k)
                 r == a % (2 ^ k)
                 half == 2 ^ (k - 1)
                 up == r > half \/ (r = half /\ q % 2 = 1)
             IN  Canon(Sgn(m) * (IF up THEN q + 1 ELSE q), e + k)

FromInt(n) == Round(n, 0)

IsNaN(x) == x.k = "nan"
IsInf(x) == x.k = "inf"
IsFin(x) == x.k = "fin"

FNeg(x) == [x EXCEPT !.m = -x.m]

\* Beyond this distance between two exponents the smaller operand is less
\* than a quarter of the last place of the larger one.
FarApart == 2 * Prec + 2

FAdd(x, y) ==
    IF IsNaN(x) \/ IsNaN(y) THEN NaN
    ELSE IF IsInf(x) /\ IsInf(y) THEN (IF x.m = y.m THEN x ELSE NaN)
    ELSE IF IsInf(x) THEN x
    ELSE IF IsInf(y) THEN y
    ELSE IF x.m = 0 THEN y
    ELSE IF y.m = 0 THEN x
    ELSE IF x.e - y.e > FarApart THEN x
    ELSE IF y.e - x.e > FarApart THEN y
    ELSE LET lo == IF x.e < y.e THEN x.e ELSE y.e
         IN  Round(x.m * 2 ^ (x.e - lo) + y.m * 2 ^ (y.e - lo), lo)

FSub(x, y) == FAdd(x, FNeg(y))

FMul(x, y) ==
    IF IsNaN(x) \/ IsNaN(y) THEN NaN
    ELSE IF IsInf(x) \/ IsInf(y)
         THEN (IF x.m = 0 \/ y.m = 0 THEN NaN ELSE Inf(Sgn(x.m) * Sgn(y.m)))
    ELSE Round(x.m * y.m, x.e + y.e)

\* n / d for integers n and d > 0, rounded once.
RoundRat(n, d) ==
    LET need == Prec + 2 + BitLen(d) - BitLen(Abs(n))
        s == IF need > 0 THEN need ELSE 0
        a == Abs(n) * 2 ^ s
        q == a \div d
        sticky == IF a % d = 0 THEN 0 ELSE 1
    IN  IF n = 0 THEN Zero ELSE Round(Sgn(n) * (2 * q + sticky), -s - 1)

FDiv(x, y) ==
    IF IsNaN(x) \/ IsNaN(y) THEN NaN
    ELSE IF IsInf(x) THEN (IF IsInf(y) THEN NaN
                           ELSE Inf(x.m * (IF y.m < 0 THEN -1 ELSE 1)))
    ELSE IF IsInf(y) THEN Zero
    ELSE IF y.m = 0 THEN (IF x.m = 0 THEN NaN ELSE Inf(Sgn(x.m)))
    ELSE LET q == RoundRat(x.m * Sgn(y.m), Abs(y.m))
         IN  IF q.m = 0 THEN Zero ELSE Fin(q.m, q.e + x.e - y.e)

\* The sign (-1, 0, 1) of x - y for finite x and y, computed exactly.
CmpFin(x, y) ==
    IF x.m = 0 THEN -Sgn(y.m)
    ELSE IF y.m = 0 THEN Sgn(x.m)
    ELSE IF Sgn(x.m) # Sgn(y.m) THEN Sgn(x.m)
    ELSE IF x.e - y.e > FarApart THEN Sgn(x.m)
    ELSE IF y.e - x.e > FarApart THEN -Sgn(y.m)
    ELSE LET lo == IF x.e < y.e THEN x.e ELSE y.e
         IN  Sgn(x.m * 2 ^ (x.e - lo) - y.m * 2 ^ (y.e - lo))

\* x < y and x <= y as IEEE comparisons: false when either is nan.
FLt(x, y) ==
    /\ ~IsNaN(x) /\ ~IsNaN(y)
    /\ IF IsInf(x) THEN x.m < 0 /\ x # y
       ELSE IF IsInf(y) THEN y.m > 0
       ELSE CmpFin(x, y) < 0

FLe(x, y) == ~IsNaN(x) /\ ~IsNaN(y) /\ (x = y \/ FLt(x, y))

RECURSIVE ISqrt(_, _, _)
\* The largest s in lo..hi with s * s <= n.
ISqrt(n, lo, hi) ==
    IF lo >= hi THEN lo
    ELSE LET mid == (lo + hi + 1) \div 2
         IN  IF mid * mid <= n THEN ISqrt(n, mid, hi) ELSE ISqrt(n, lo, mid - 1)

\* The square root of x, rounded once.
FSqrt(x) ==
    IF IsNaN(x) THEN NaN
    ELSE IF IsInf(x) THEN (IF x.m > 0 THEN x ELSE NaN)
    ELSE IF x.m < 0 THEN NaN
    ELSE IF x.m = 0 THEN Zero
    ELSE LET need == 2 * (Prec + 2) - BitLen(x.m)
             t0 == IF need > 0 THEN need ELSE 0
             t == t0 + ((x.e - t0) % 2)
             X == x.m * 2 ^ t
             s == ISqrt(X, 0, 2 ^ (Prec + 3))
             sticky == IF s * s = X THEN 0 ELSE 1
         IN  Round(2 * s + sticky, ((x.e - t) \div 2) - 1)

\* The square root of a / b for integers a >= 0 and b > 0, rounded once.
RoundSqrtRat(a, b) ==
    LET gap == BitLen(b) - BitLen(a)
        S == Prec + 2 + (IF gap > 0 THEN (gap + 1) \div 2 ELSE 0)
        A == a * 4 ^ S
        X == A \div b
        s == ISqrt(X, 0, 2 ^ (S + 1 + (IF gap < 0 THEN (1 - gap) \div 2 ELSE 0)))
        sticky == IF s * s = X /\ A % b = 0 THEN 0 ELSE 1
    IN  IF a = 0 THEN Zero ELSE Round(2 * s + sticky, -S - 1)

\* The sequence <<F(1), ..., F(n)>>, each element computed once.
MkSeq(n, F(_)) ==
    LET RECURSIVE upto(_)
        upto(k) == IF k = 0 THEN <<>> ELSE Append(upto(k - 1), F(k))
    IN  upto(n)

RECURSIVE FSum(_)
\* np.sum / add.reduce of a short array: the elements added in order.
FSum(xs) == IF xs = <<>> THEN Zero
            ELSE FAdd(FSum(SubSeq(xs, 1, Len(xs) - 1)), xs[Len(xs)])

RECURSIVE ISum(_)
ISum(xs) == IF xs = <<>> THEN 0 ELSE xs[1] + ISum(Tail(xs))

RECURSIVE SetSum(_, _)
\* The sum of f[x] over the finite set S of integers-valued terms.
SetSum(f, S) == IF S = {} THEN 0
                ELSE LET x == CHOOSE y \in S : TRUE
                     IN  f[x] + SetSum(f, S \ {x})

RECURSIVE SetProd(_, _)
SetProd(f, S) == IF S = {} THEN 1
                 ELSE LET x == CHOOSE y \in S : TRUE
                      IN  f[x] * SetProd(f, S \ {x})

Range(xs) == {xs[i] : i \in DOMAIN xs}

----------------------------------------------------------------------------
(***************************************************************************)
(* Data frames: named columns of equal length, held column by column.      *)
(***************************************************************************)
DataFrame(columns, n, col) == [columns |-> columns, n |-> n, col |-> col]

\* data[labels]
Select(data, labels) ==
    DataFrame(labels, data.n, [c \in Range(labels) |-> data.col[c]])

\* np.shape(np.asarray(data))
Shape(data) == <<data.n, Len(data.columns)>>

\* A matrix with row labels and column labels, as pandas holds one.
Matrix(index, columns, val) == [index |-> index, columns |-> columns, val |-> val]

MatOf(index, columns, F(_, _)) ==
    Matrix(index, columns,
           MkSeq(Len(index), LAMBDA i : MkSeq(Len(columns), LAMBDA j : F(i, j))))

Flatten(mat) ==
    LET w == Len(mat.columns)
    IN  MkSeq(Len(mat.index) * w,
              LAMBDA p : mat.val[((p - 1) \div w) + 1][((p - 1) % w) + 1])

----------------------------------------------------------------------------
(***************************************************************************)
(* Library statistics (pandas, scipy, numpy).                              *)
(***************************************************************************)
\* Series.corr / DataFrame.corr entry, method = 'pearson': the product
\* moment coefficient, nan when either variance is zero.
PearsonCorr(xs, ys) ==
    LET n == Len(xs)
        sx == ISum(xs)
        sy == ISum(ys)
        cxy == n * ISum(MkSeq(n, LAMBDA i : xs[i] * ys[i])) - sx * sy
        vx == n * ISum(MkSeq(n, LAMBDA i : xs[i] * xs[i])) - sx * sx
        vy == n * ISum(MkSeq(n, LAMBDA i : ys[i] * ys[i])) - sy * sy
    IN  IF vx * vy = 0 THEN NaN
        ELSE LET r == RoundSqrtRat(cxy * cxy, vx * vy)
             IN  IF cxy < 0 THEN FNeg(r) ELSE r

\* DataFrame.corr() with its default method.
Corr(data) ==
    MatOf(data.columns, data.columns,
          LAMBDA i, j : PearsonCorr(data.col[data.columns[i]],
                                    data.col[data.columns[j]]))

\* scipy.stats.chi2_contingency(crosstab)[0] of the cross table of two
\* columns, as n * stat = num / den: Pearson's statistic, with Yates'
\* correction when the table has one degree of freedom, 0 when it has none.
Chi2Stat(var1, var2) ==
    LET n == Len(var1)
        R == Range(var1)
        C == Range(var2)
        obs == [a \in R |-> [b \in C |->
                   Cardinality({i \in 1..n : var1[i] = a /\ var2[i] = b})]]
        rs == [a \in R |-> Cardinality({i \in 1..n : var1[i] = a})]
        cs == [b \in C |-> Cardinality({i \in 1..n : var2[i] = b})]
        dof == (Cardinality(R) - 1) * (Cardinality(C) - 1)
        D(a, b) == Abs(n * obs[a][b] - rs[a] * cs[b])
        Y(a, b) == IF 2 * D(a, b) > n THEN 2 * D(a, b) - n ELSE 0
        PR == SetProd(rs, R)
        PC == SetProd(cs, C)
        \* the terms over their common denominator 4 * n * PR * PC
        T(a, b) == (IF dof = 1 THEN Y(a, b) * Y(a, b) ELSE 4 * D(a, b) * D(a, b))
                   * ((PR * PC) \div (rs[a] * cs[b]))
        num == SetSum([p \in R \X C |-> T(p[1], p[2])], R \X C)
    IN  IF dof = 0 THEN Zero ELSE RoundRat(num, 4 * n * PR * PC)

\* The literal 1e-16 (0x1.CD2B297D889BCp-54), rounded to a float.
Eps16 == Round(236119, -71)

----------------------------------------------------------------------------
(***************************************************************************)
(* metric_mixed_correlation.py                                             *)
(***************************************************************************)
cramers_V(var1, var2) ==
    LET stat == Chi2Stat(var1, var2)
        obs == Len(var1)
        rows == Cardinality(Range(var1))
        cols == Cardinality(Range(var2))
        mini == (IF rows < cols THEN rows ELSE cols) - 1
    IN  FDiv(stat, FAdd(FromInt(obs * mini), Eps16))

RECURSIVE Uniques(_)
\* The distinct values of xs in order of first appearance.
Uniques(xs) ==
    IF xs = <<>> THEN <<>>
    ELSE LET u == Uniques(SubSeq(xs, 1, Len(xs) - 1))
             x == xs[Len(xs)]
         IN  IF x \in Range(u) THEN u ELSE Append(u, x)

\* pd.factorize(xs)[0]: each value's code, numbered from 0 as they appear.
Factorize(xs) ==
    LET u == Uniques(xs)
    IN  MkSeq(Len(xs), LAMBDA i : (CHOOSE c \in 1..Len(u) : u[c] = xs[i]) - 1)

\* Line 34: measurements[np.argwhere(fcat == i).flatten()]
CatMeasures(fcat, measurements, i) ==
    LET at == SelectSeq(MkSeq(Len(fcat), LAMBDA p : p), LAMBDA p : fcat[p] = i)
    IN  MkSeq(Len(at), LAMBDA q : FromInt(measurements[at[q]]))

Sq(x) == FMul(x, x)

\* Lines 41-44.
Eta(numerator, denominator) ==
    IF numerator = Zero THEN Zero ELSE FDiv(numerator, denominator)

\* Lines 39-40: numerator and denominator, from the arrays and the average.
EtaAbout(y_total_avg, n_array, y_avg_array, measurements) ==
    Eta(FSum(MkSeq(Len(n_array), LAMBDA i :
                 FMul(n_array[i], Sq(FSub(y_avg_array[i], y_total_avg))))),
        FSum(MkSeq(Len(measurements), LAMBDA j :
                 Sq(FSub(FromInt(measurements[j]), y_total_avg)))))

\* Line 38: y_total_avg, from the arrays the loop filled.
EtaOfArrays(n_array, y_avg_array, measurements) ==
    EtaAbout(FDiv(FSum(MkSeq(Len(n_array), LAMBDA i :
                           FMul(y_avg_array[i], n_array[i]))),
                  FSum(n_array)),
             n_array, y_avg_array, measurements)

\* Lines 33-36: n_array and y_avg_array, from the measurements of each
\* category.
EtaOfGroups(cat_measures, measurements) ==
    EtaOfArrays(MkSeq(Len(cat_measures), LAMBDA i : FromInt(Len(cat_measures[i]))),
                MkSeq(Len(cat_measures), LAMBDA i :
                    FDiv(FSum(cat_measures[i]), FromInt(Len(cat_measures[i])))),
                measurements)

\* Lines 30-33: fcat and cat_num = np.max(fcat) + 1.
EtaOfCodes(fcat, cat_num, measurements) ==
    EtaOfGroups(MkSeq(cat_num, LAMBDA i : CatMeasures(fcat, measurements, i - 1)),
                measurements)

correlation_ratio(categories, measurements) ==
    EtaOfCodes(Factorize(categories), Len(Uniques(categories)), measurements)

\* func(x, y) for the function object handed to _apply_mat.
Call(func, x, y) ==
    IF func = "_cramers_V" THEN cramers_V(x, y) ELSE correlation_ratio(x, y)

apply_mat(data, func, labs1, labs2) ==
    MatOf(labs1, labs2,
          LAMBDA i, j : Call(func, data.col[labs1[i]], data.col[labs2[j]]))

Transpose(mat) ==
    MatOf(mat.columns, mat.index, LAMBDA i, j : mat.val[j][i])

\* pd.concat([a, b], axis=1) of two matrices with the same row labels.
ConcatCols(a, b) ==
    MatOf(a.index, a.columns \o b.columns,
          LAMBDA i, j : IF j <= Len(a.columns) THEN a.val[i][j]
                        ELSE b.val[i][j - Len(a.columns)])

\* pd.concat([a, b], axis=0) of two matrices with the same column labels.
ConcatRows(a, b) ==
    MatOf(a.index \o b.index, a.columns,
          LAMBDA i, j : IF i <= Len(a.index) THEN a.val[i][j]
                        ELSE b.val[i - Len(a.index)][j])

\* corr + np.diag(1 - np.diag(corr))
FixDiagonal(corr) ==
    MatOf(corr.index, corr.columns,
          LAMBDA i, j : FAdd(corr.val[i][j],
                             IF i = j THEN FSub(One, corr.val[i][i]) ELSE Zero))

\* Lines 56-58: the blocks put together, categorical columns first.
Blocks(corr_num_num, corr_cat_cat, corr_cat_num) ==
    ConcatRows(ConcatCols(corr_cat_cat, corr_cat_num),
               ConcatCols(Transpose(corr_cat_num), corr_num_num))

\* Lines 52-58: corr, the matrix before its diagonal is set.
BlockMatrix(data, num_cols, cat_cols) ==
    Blocks(Corr(Select(data, num_cols)),
           apply_mat(data, "_cramers_V", cat_cols, cat_cols),
           apply_mat(data, "_correlation_ratio", cat_cols, num_cols))

mixed_correlation(data, num_cols, cat_cols) ==
    FixDiagonal(BlockMatrix(data, num_cols, cat_cols))

\* r_corr - f_corr
MatSub(a, b) ==
    MatOf(a.index, a.columns, LAMBDA i, j : FSub(a.val[i][j], b.val[i][j]))

\* np.linalg.norm(mat, ord='fro'): sqrt(sum(abs(x)**2))
FrobeniusNorm(mat) ==
    LET xs == Flatten(mat)
    IN  FSqrt(FSum(MkSeq(Len(xs), LAMBDA p : FMul(xs[p], xs[p]))))

----------------------------------------------------------------------------
(***************************************************************************)
(* '%.4f' % x                                                              *)
(***************************************************************************)
Digit(d) == <<"0", "1", "2", "3", "4", "5", "6", "7", "8", "9">>[d + 1]

RECURSIVE IntStr(_)
IntStr(n) == IF n < 10 THEN Digit(n) ELSE IntStr(n \div 10) \o Digit(n % 10)

RECURSIVE Frac(_, _)
\* The last w decimal digits of n, zero padded.
Frac(n, w) == IF w = 0 THEN "" ELSE Frac(n \div 10, w - 1) \o Digit(n % 10)

\* The decimal places of the report lines.
Decimals == 4

\* |x| * 10^Decimals for a finite x, rounded to an integer, ties to even.
Scaled(x) ==
    LET a == Abs(x.m) * 10 ^ Decimals
        den == 2 ^ (-x.e)
        q == a \div den
        r == a % den
    IN  IF x.e >= 0 THEN a * 2 ^ x.e
        ELSE IF -x.e > Prec + 4 * Decimals THEN 0
        ELSE IF 2 * r > den \/ (2 * r = den /\ q % 2 = 1) THEN q + 1 ELSE q

Format4f(x) ==
    IF IsNaN(x) THEN "nan"
    ELSE IF IsInf(x) THEN (IF x.m < 0 THEN "-inf" ELSE "inf")
    ELSE (IF x.m < 0 THEN "-" ELSE "")
         \o IntStr(Scaled(x) \div 10 ^ Decimals) \o "."
         \o Frac(Scaled(x) % 10 ^ Decimals, Decimals)

----------------------------------------------------------------------------
(***************************************************************************)
(* Metric instances.  self holds the attributes of one instance; an        *)
(* attribute that is not set yet is <<>>, a set one is <<value>>.          *)
(***************************************************************************)
NoResults == <<>>

MetricClass(cls, real_data, synt_data, hout_data, cat_cols, num_cols, nn_dist, results) ==
    [cls |-> cls, real_data |-> real_data, synt_data |-> synt_data,
     hout_data |-> hout_data, cat_cols |-> cat_cols, num_cols |-> num_cols,
     nn_dist |-> nn_dist, results |-> results, mixed_corr |-> <<>>]

Returned(op, val) == [op |-> op, ok |-> TRUE, val |-> val]
Raised(op, exc) == [op |-> op, ok |-> FALSE, val |-> exc]
NoCall == [op |-> "", ok |-> TRUE, val |-> ""]

(***************************************************************************)
(* metric_epsilon_identifiability.py                                       *)
(***************************************************************************)
\* np.unique(np.round(labels), return_counts=True)[1]: how often each
\* distinct value occurs, in the order of the values.  The model's column
\* values are whole numbers, which np.round leaves as they are.
UniqueCounts(labels) ==
    LET vals == Range(labels)
        rank(v) == Cardinality({u \in vals : u <= v})
    IN  MkSeq(Cardinality(vals), LAMBDA p :
              Cardinality({i \in DOMAIN labels : rank(labels[i]) = p}))

\* scipy's entropy(counts) is left uninterpreted, but for the one value the
\* source guards against: it is 0 exactly when a single value occurs.
column_entropy(labels) ==
    LET counts == UniqueCounts(labels)
    IN  [fn |-> "entropy", zero |-> Len(counts) = 1, of |-> counts]

\* W_adjust = 1/(np.array(W)+1e-16), entry by entry.
InverseWeight(w) == [fn |-> "1/(W+1e-16)", zero |-> FALSE, of |-> w]

\* Lines 53-57: one weight for each column of the array of real_data.
EntropyWeights(real_data) ==
    LET x_dim == Shape(real_data)[2]
        W == MkSeq(x_dim, LAMBDA i :
                 column_entropy(real_data.col[real_data.columns[i]]))
    IN  MkSeq(x_dim, LAMBDA i : InverseWeight(W[i]))

\* IdentifiabilityValue with the comparison R_Diff <= 0.
IdentifiabilityValue_Ties(ext_distances, in_dists, no) ==
    LET R_Diff == MkSeq(Len(ext_distances), LAMBDA i :
                      FSub(ext_distances[i], in_dists[i]))
        flagged == {i \in DOMAIN R_Diff : FLe(R_Diff[i], Zero)}
    IN  FDiv(FromInt(Cardinality(flagged)), FromInt(no))

\* Lines 66-67: R_Diff = ext_distances - in_dists;
\* np.sum(R_Diff < 0) / float(no)
IdentifiabilityValue(ext_distances, in_dists, no) ==
    LET R_Diff == MkSeq(Len(ext_distances), LAMBDA i :
                      FSub(ext_distances[i], in_dists[i]))
        flagged == {i \in DOMAIN R_Diff : FLt(R_Diff[i], Zero)}
    IN  FDiv(FromInt(Cardinality(flagged)), FromInt(no))

\* Restricted with the numeric columns selected for every keyword.
Restricted_Always(inst) ==
    [inst EXCEPT !.real_data = Select(inst.real_data, inst.num_cols),
                 !.synt_data = Select(inst.synt_data, inst.num_cols)]

\* Lines 49-51: the datasets the rest of evaluate works on.
Restricted(inst) ==
    IF inst.nn_dist = "euclid"
    THEN [inst EXCEPT !.real_data = Select(inst.real_data, inst.num_cols),
                      !.synt_data = Select(inst.synt_data, inst.num_cols)]
    ELSE inst

\* The distances the nearest neighbour utility may return for a row.
DistVals == {Zero, One}

\* One call of the nearest neighbour utility and the distances it returned.
KnnCall(a, b, cat_cols, num, metric, weights, d) ==
    [a |-> a, b |-> b, cat_cols |-> cat_cols, num |-> num, metric |-> metric,
     weights |-> weights, d |-> d]

EpsEvaluate ==
    /\ self.cls = "eps"
    /\ LET inst == Restricted(self)
           no == Shape(inst.real_data)[1]
           W_adjust == EntropyWeights(inst.real_data)
       IN  \E in_dists, ext_distances \in [1..no -> DistVals] :
              LET value == IdentifiabilityValue(ext_distances, in_dists, no)
                  after == [inst EXCEPT !.results = ("eps_risk" :> value) @@ @]
              IN  /\ self' = after
                  /\ ext' = << KnnCall(inst.real_data.columns, inst.real_data.columns,
                                       inst.cat_cols, 1, inst.nn_dist, W_adjust,
                                       in_dists),
                               KnnCall(inst.real_data.columns, inst.synt_data.columns,
                                       inst.cat_cols, 1, inst.nn_dist, W_adjust,
                                       ext_distances) >>
                  /\ last' = <<[op |-> "evaluate", eps_risk |-> value]>>
                  /\ ret' = Returned("evaluate", after.results)

\* Lines 76-78.
EpsLine(results) ==
    "| Epsilon identifiability risk             :   "
    \o Format4f(results["eps_risk"]) \o "           |"

EpsFormatOutput ==
    /\ self.cls = "eps"
    /\ ret' = IF "eps_risk" \in DOMAIN self.results
              THEN Returned("format_output", EpsLine(self.results))
              ELSE Raised("format_output", "KeyError")
    /\ UNCHANGED <<self, ext, last>>

(***************************************************************************)
(* MixedCorrelation                                                        *)
(***************************************************************************)
\* Lines 91-99: the two correlation matrices.
CorrOf(mixed_corr, data, num_cols, cat_cols) ==
    IF mixed_corr THEN mixed_correlation(data, num_cols, cat_cols)
    ELSE Corr(Select(data, num_cols))

\* McResults with the keys written into the mapping the instance holds.
McResults_Update(return_mats, r_corr, f_corr, corr_mat) ==
    (IF return_mats
     THEN ("diff_cor_mat" :> corr_mat) @@ ("synt_cor_mat" :> f_corr)
          @@ ("real_cor_mat" :> r_corr)
          @@ ("corr_mat_diff" :> FrobeniusNorm(corr_mat))
     ELSE ("corr_mat_diff" :> FrobeniusNorm(corr_mat)))
    @@ self.results

\* Lines 100-105: the results mapping evaluate stores.
McResults(return_mats, r_corr, f_corr, corr_mat) ==
    IF return_mats
    THEN ("diff_cor_mat" :> corr_mat) @@ ("synt_cor_mat" :> f_corr)
         @@ ("real_cor_mat" :> r_corr)
         @@ ("corr_mat_diff" :> FrobeniusNorm(corr_mat))
    ELSE ("corr_mat_diff" :> FrobeniusNorm(corr_mat))

\* McStore with mixed_corr set by the first call only.
McStore_Stale(mixed_corr, return_mats, r_corr, f_corr) ==
    /\ self' = [self EXCEPT !.mixed_corr = IF @ = <<>> THEN <<mixed_corr>> ELSE @,
                            !.results = McResults(return_mats, r_corr, f_corr,
                                                  MatSub(r_corr, f_corr))]
    /\ last' = <<[op |-> "evaluate", mixed_corr |-> mixed_corr,
                  return_mats |-> return_mats,
                  corr_mat_diff |-> self'.results["corr_mat_diff"],
                  before |-> DOMAIN self.results]>>
    /\ ret' = Returned("evaluate", self'.results)
    /\ UNCHANGED ext

\* Lines 90 and 102-106, and in last the call as its caller saw it.
McStore(mixed_corr, return_mats, r_corr, f_corr) ==
    /\ self' = [self EXCEPT !.mixed_corr = <<mixed_corr>>,
                            !.results = McResults(return_mats, r_corr, f_corr,
                                                  MatSub(r_corr, f_corr))]
    /\ last' = <<[op |-> "evaluate", mixed_corr |-> mixed_corr,
                  return_mats |-> return_mats,
                  corr_mat_diff |-> self'.results["corr_mat_diff"],
                  before |-> DOMAIN self.results]>>
    /\ ret' = Returned("evaluate", self'.results)
    /\ UNCHANGED ext

McEvaluate ==
    /\ self.cls = "mc"
    /\ \E mixed_corr, return_mats \in BOOLEAN :
          McStore(mixed_corr, return_mats,
                  CorrOf(mixed_corr, self.real_data, self.num_cols, self.cat_cols),
                  CorrOf(mixed_corr, self.synt_data, self.num_cols, self.cat_cols))

\* Lines 112-118.
McLine(mixed_corr, results) ==
    (IF mixed_corr
     THEN "| Mixed correlation matrix difference      :   "
     ELSE "| Correlation difference (nums only)       :   ")
    \o Format4f(results["corr_mat_diff"]) \o "           |"

McFormatOutput ==
    /\ self.cls = "mc"
    /\ ret' = IF self.mixed_corr = <<>>
              THEN Raised("format_output", "AttributeError")
              ELSE IF "corr_mat_diff" \notin DOMAIN self.results
              THEN Raised("format_output", "KeyError")
              ELSE Returned("format_output",
                            McLine(self.mixed_corr[1], self.results))
    /\ UNCHANGED <<self, ext, last>>

----------------------------------------------------------------------------
(***************************************************************************)
(* The datasets and instances the model is run on.                         *)
(***************************************************************************)
Schemas ==
    { [cat |-> <<"c1">>, num |-> <<"n1">>],
      [cat |-> <<>>, num |-> <<"n1", "n2">>],
      [cat |-> <<"c1", "c2">>, num |-> <<>>] }

\* Columns of n rows: a constant one and two that alternate.
ColumnsOf(n) ==
    {[i \in 1..n |-> 0], [i \in 1..n |-> i % 2], [i \in 1..n |-> (i + 1) % 2]}

Tables(columns, n, cols) ==
    {DataFrame(columns, n, col) : col \in [Range(columns) -> cols]}

\* A synthetic dataset: the real one, or the real one with its first column
\* redrawn.
Synthetic(real) ==
    {real} \cup {[real EXCEPT !.col[real.columns[1]] = v] : v \in ColumnsOf(real.n)}

\* The results mapping a new instance starts with: empty, or holding what
\* the caller already put into it.
InitialResults == {NoResults, ("other" :> One)}

NoData == DataFrame(<<>>, 0, <<>>)

InitEps ==
    \E sch \in {x \in Schemas : x.num # <<>>}, n \in 1..NRows,
       nn_dist \in {"euclid", "gower"}, results \in InitialResults :
       \E real \in Tables(sch.num \o sch.cat, n,
                          {[i \in 1..n |-> 0], [i \in 1..n |-> i % 2]}) :
          self = MetricClass("eps", real, real, NoData, sch.cat, sch.num,
                             nn_dist, results)

InitMc ==
    \E sch \in Schemas, n \in 1..NRows, results \in InitialResults :
       \E real \in Tables(sch.num \o sch.cat, n, ColumnsOf(n)) :
          \E synt \in Synthetic(real) :
             self = MetricClass("mc", real, synt, NoData, sch.cat, sch.num,
                                "gower", results)

Init ==
    /\ InitEps \/ InitMc
    /\ ext = <<>>
    /\ last = <<>>
    /\ ret = NoCall

Next ==
    \/ EpsEvaluate
    \/ EpsFormatOutput
    \/ McEvaluate
    \/ McFormatOutput

Spec == Init /\ [][Next]_vars

----------------------------------------------------------------------------
(***************************************************************************)
(* The functions of metric_mixed_correlation.py applied to one dataset.    *)
(***************************************************************************)
Arguments(data, num_cols, cat_cols) ==
    [cls |-> "args", data |-> data, num_cols |-> num_cols, cat_cols |-> cat_cols]

\* A dataset whose categorical columns hold two labels and whose numeric
\* columns hold whole numbers up to MaxVal.
Datasets(sch, n) ==
    {DataFrame(sch.num \o sch.cat, n, numc @@ catc) :
        numc \in [Range(sch.num) -> [1..n -> 0..MaxVal]],
        catc \in [Range(sch.cat) -> [1..n -> {0, 1}]]}

InitFn ==
    /\ \E sch \in Schemas, n \in 1..FnRows :
          \E data \in Datasets(sch, n) :
             self = Arguments(data, sch.num, sch.cat)
    /\ ext = <<>>
    /\ last = <<>>
    /\ ret = NoCall

ApplyMixedCorrelation ==
    /\ self.cls = "args"
    /\ ret' = Returned("mixed_correlation",
                       mixed_correlation(self.data, self.num_cols, self.cat_cols))
    /\ last' = <<>>
    /\ UNCHANGED <<self, ext>>

ApplyCorrelationRatio ==
    /\ self.cls = "args"
    /\ \E c \in Range(self.cat_cols), m \in Range(self.num_cols) :
          /\ ret' = Returned("correlation_ratio",
                             correlation_ratio(self.data.col[c], self.data.col[m]))
          /\ last' = <<[categories |-> self.data.col[c],
                        measurements |-> self.data.col[m]]>>
    /\ UNCHANGED <<self, ext>>

\* Lines 97-98: the matrix evaluate computes with mixed_corr = False.
ApplyNumericCorrelation ==
    /\ self.cls = "args"
    /\ ret' = Returned("corr",
                       CorrOf(FALSE, self.data, self.num_cols, self.cat_cols))
    /\ last' = <<>>
    /\ UNCHANGED <<self, ext>>

NextFn ==
    \/ ApplyMixedCorrelation
    \/ ApplyCorrelationRatio
    \/ ApplyNumericCorrelation

SpecFn == InitFn /\ [][NextFn]_vars

----------------------------------------------------------------------------
(***************************************************************************)
(* Properties of EpsilonIdentifiability, checked under Spec.               *)
(***************************************************************************)
EpsEvaluated == self.cls = "eps" /\ ext # <<>>

\* The rows whose distance to the synthetic data is strictly less than
\* their distance within the real data.
CloserRows(ext_distances, in_dists) ==
    {i \in DOMAIN in_dists : FLt(ext_distances[i], in_dists[i])}

\* C1: after evaluate, eps_risk is the number of rows whose ext distance is
\* strictly less than their in distance, divided by the number of rows,
\* whatever distances the utility returned; rows with equal distances are
\* not counted, the score lies in [0,1] and is 0 when no row is closer.
C1_EpsRiskIsFraction ==
    EpsEvaluated =>
        LET in_dists == ext[1].d
            ext_distances == ext[2].d
            n == self.real_data.n
            closer == CloserRows(ext_distances, in_dists)
            risk == self.results["eps_risk"]
        IN  /\ n >= 1 /\ Len(in_dists) = n /\ Len(ext_distances) = n
            /\ risk = FDiv(FromInt(Cardinality(closer)), FromInt(n))
            /\ \A i \in 1..n : ext_distances[i] = in_dists[i] => i \notin closer
            /\ FLe(Zero, risk) /\ FLe(risk, One)
            /\ (closer = {} => risk = Zero)

\* C1: evaluate has run on distances with a tie in one row and a closer
\* synthetic neighbour in another, and counted only the latter.
C1_Witness ==
    /\ EpsEvaluated
    /\ \E i, j \in DOMAIN ext[1].d :
          /\ ext[2].d[i] = ext[1].d[i]
          /\ FLt(ext[2].d[j], ext[1].d[j])
    /\ Cardinality(CloserRows(ext[2].d, ext[1].d)) = 1
    /\ FLt(Zero, self.results["eps_risk"])
    /\ FLt(self.results["eps_risk"], One)

\* The columns of the dataset evaluate hands to the utility.
HandedColumns ==
    IF self.nn_dist = "euclid" THEN Range(self.num_cols)
    ELSE Range(self.num_cols) \cup Range(self.cat_cols)

\* C2 as stated: the weight vector handed to the utility has one entry per
\* column of num_cols, for every distance keyword.
C2_WeightPerNumericColumn ==
    EpsEvaluated =>
        \A c \in 1..2 : Len(ext[c].weights) = Len(self.num_cols)

\* C2 amended: the weight vector has one entry per column of the real data
\* handed to the utility, each the inverse entropy weight of that column:
\* the numeric columns with "euclid", every column, the categorical ones
\* included, with another keyword.
C2_WeightPerHandedColumn ==
    EpsEvaluated =>
        \A c \in 1..2 :
            /\ Range(ext[c].a) = HandedColumns
            /\ Len(ext[c].weights) = Len(ext[c].a)
            /\ Len(ext[c].weights) = Cardinality(HandedColumns)
            /\ \A i \in DOMAIN ext[c].a :
                  ext[c].weights[i] =
                      InverseWeight(column_entropy(self.real_data.col[ext[c].a[i]]))

\* C2: evaluate has run with a mixed-type keyword on data with a
\* categorical column, and handed over a weight for it.
C2_Witness ==
    /\ EpsEvaluated
    /\ self.nn_dist # "euclid"
    /\ self.cat_cols # <<>>
    /\ Len(ext[1].weights) = Len(self.num_cols) + Len(self.cat_cols)

\* C10: a call of EpsilonIdentifiability.evaluate leaves real_data,
\* synt_data, hout_data, cat_cols and num_cols of the instance as they were.
C10_EvaluateKeepsDatasets ==
    [][(self.cls = "eps" /\ ret'.op = "evaluate") =>
          /\ self'.real_data = self.real_data
          /\ self'.synt_data = self.synt_data
          /\ self'.hout_data = self.hout_data
          /\ self'.cat_cols = self.cat_cols
          /\ self'.num_cols = self.num_cols]_vars

----------------------------------------------------------------------------
(***************************************************************************)
(* Properties of MixedCorrelation, checked under Spec.                     *)
(***************************************************************************)
McEvaluated == self.cls = "mc" /\ last # <<>>

MatrixKeys == {"real_cor_mat", "synt_cor_mat", "diff_cor_mat"}

\* C8: format_output returns the 'Mixed correlation matrix difference' line
\* iff the most recent evaluate had mixed_corr = True, the 'Correlation
\* difference (nums only)' line iff it had mixed_corr = False, with the
\* corr_mat_diff of that evaluate as the value; before any evaluate it fails.
C8_LineFollowsLastEvaluate ==
    (self.cls = "mc" /\ ret.op = "format_output") =>
        IF last = <<>> THEN ~ret.ok
        ELSE /\ ret.ok
             /\ last[1].mixed_corr <=>
                   ret.val = "| Mixed correlation matrix difference      :   "
                             \o Format4f(last[1].corr_mat_diff) \o "           |"
             /\ ~last[1].mixed_corr <=>
                   ret.val = "| Correlation difference (nums only)       :   "
                             \o Format4f(last[1].corr_mat_diff) \o "           |"

\* C8: format_output has returned the nums-only line after an evaluate with
\* mixed_corr = False that followed an earlier evaluate.
C8_Witness ==
    /\ McEvaluated
    /\ ret.op = "format_output" /\ ret.ok
    /\ ~last[1].mixed_corr
    /\ "corr_mat_diff" \in last[1].before
    /\ ret.val = "| Correlation difference (nums only)       :   "
                 \o Format4f(self.results["corr_mat_diff"]) \o "           |"

\* C9: after MixedCorrelation.evaluate the results mapping holds exactly
\* corr_mat_diff, plus the three matrices iff the most recent call had
\* return_mats = True, whatever it held before; and a call of
\* EpsilonIdentifiability.evaluate sets eps_risk and keeps every other key
\* of its results mapping with its value.
C9_ResultsKeys ==
    /\ [](McEvaluated =>
             DOMAIN self.results =
                 {"corr_mat_diff"}
                 \cup (IF last[1].return_mats THEN MatrixKeys ELSE {}))
    /\ [][(self.cls = "eps" /\ ret'.op = "evaluate") =>
             /\ DOMAIN self'.results = DOMAIN self.results \cup {"eps_risk"}
             /\ \A k \in DOMAIN self.results \ {"eps_risk"} :
                   self'.results[k] = self.results[k]]_vars

\* C9: evaluate without matrices has replaced a mapping that held the
\* matrices of an earlier call.
C9_Witness ==
    /\ McEvaluated
    /\ MatrixKeys \subseteq last[1].before
    /\ ~last[1].return_mats
    /\ DOMAIN self.results = {"corr_mat_diff"}

\* The template of the report lines.
Template == "|                                          :                    |"

\* C6: every line format_output returns has the length of the template,
\* for every value evaluate stored.
C6_LinesHaveTemplateWidth ==
    (ret.op = "format_output" /\ ret.ok) => Len(ret.val) = Len(Template)

\* C4: with identical real and synthetic data evaluate stores
\* corr_mat_diff = 0, in both modes; for any data corr_mat_diff >= 0.
C4_IdenticalDataGiveZero ==
    McEvaluated =>
        /\ self.real_data = self.synt_data => self.results["corr_mat_diff"] = Zero
        /\ FLe(Zero, self.results["corr_mat_diff"])

----------------------------------------------------------------------------
(***************************************************************************)
(* Properties of the functions, checked under SpecFn.                      *)
(***************************************************************************)
\* The entry of a matrix at the row and the column with the given labels.
Entry(mat, row, column) ==
    mat.val[CHOOSE i \in DOMAIN mat.index : mat.index[i] = row]
           [CHOOSE j \in DOMAIN mat.columns : mat.columns[j] = column]

\* C3: every diagonal entry of the matrix mixed_correlation returns is
\* exactly 1, whatever the blocks hold there, and every other entry is the
\* one the blocks hold.
C3_DiagonalIsOne ==
    ret.op = "mixed_correlation" =>
        LET blocks == BlockMatrix(self.data, self.num_cols, self.cat_cols)
        IN  \A i \in DOMAIN ret.val.index, j \in DOMAIN ret.val.columns :
               ret.val.val[i][j] = IF i = j THEN One ELSE blocks.val[i][j]

\* Twice the average rank of each entry of xs.
Ranks(xs) ==
    [i \in DOMAIN xs |->
        2 * Cardinality({j \in DOMAIN xs : xs[j] < xs[i]})
        + Cardinality({j \in DOMAIN xs : xs[j] = xs[i]}) + 1]

\* Spearman's rho: the linear correlation of the ranks.
SpearmanCorr(xs, ys) == PearsonCorr(Ranks(xs), Ranks(ys))

\* C5: for every pair of different numeric columns, the entry of the matrix
\* mixed_correlation returns is Spearman's rho of the two columns, and the
\* entry of the matrix evaluate computes with mixed_corr = False is their
\* Pearson correlation.
C5_MixedModeIsSpearman ==
    \A a, b \in Range(self.num_cols) :
        a # b =>
            /\ ret.op = "mixed_correlation" =>
                  Entry(ret.val, a, b) =
                      SpearmanCorr(self.data.col[a], self.data.col[b])
            /\ ret.op = "corr" =>
                  Entry(ret.val, a, b) =
                      PearsonCorr(self.data.col[a], self.data.col[b])

\* C7: _correlation_ratio returns exactly 0 when the measurements are all
\* the same number, and a finite value in [0,1] for every input.
C7_EtaOfConstantIsZero ==
    ret.op = "correlation_ratio" =>
        /\ Cardinality(Range(last[1].measurements)) = 1 => ret.val = Zero
        /\ FLe(Zero, ret.val) /\ FLe(ret.val, One)

====
